---- MODULE Spec2Model ----
(***************************************************************************)
(* A model of the Blokus rules engine: shape parsing and orientation        *)
(* (piece.py), and the engine's board, legality test, placement, retirement *)
(* and termination (blokus.py).                                             *)
(*                                                                          *)
(* Points are <<row, col>>.  A board cell is None or <<player, kind>>.      *)
(* A query's outcome is one of the strings "true", "false",                 *)
(* "AlreadyPlayedShape" and "NoAnchorSet"; the last two are the two         *)
(* ValueErrors the engine raises.                                           *)
(***************************************************************************)
EXTENDS Integers, Sequences, FiniteSets, TLC

\* ------------------------------------------------------------------ bounds
\* The catalog is cut to its first NumKinds shape kinds.
NumKinds == 2
\* Callers anchor their pieces at rows and columns -1..MaxAnchor (-1 is off
\* the board), or at the far corner of the board.
MaxAnchor == 1

\* reset() is called at most MaxResets times, in games of at most
\* MaxResetPlayers players.
MaxResets == 1
MaxResetPlayers == 2

\* The queries are called between the moves of games of at most
\* MaxQueryPlayers players.
MaxQueryPlayers == 2

\* ------------------------------------------------------- program constants
MinPlayers == 1
MaxPlayers == 4
MinSize == 5

None == <<>>

\* ------------------------------------------------------------ shape catalog
\* ShapeKind, in the order of the definitions mapping.
KindOrder == <<"ONE", "TWO", "THREE", "C">>

ShapeKind == {KindOrder[i] : i \in 1..NumKinds}

\* definitions[kind]: the text block of a shape, dedented, one sequence of
\* characters per non-empty line.
definitions ==
    [k \in ShapeKind |->
        CASE k = "ONE"   -> << <<"X">> >>
          [] k = "TWO"   -> << <<"O", "X">> >>
          [] k = "THREE" -> << <<"X", "O", "X">> >>
          [] k = "C"     -> << <<"O", "X">>, <<"X", " ">> >>]

\* The characters of a block in reading order, each with its row and column.
RECURSIVE Cells(_, _)
Cells(lines, r) ==
    IF r > Len(lines) THEN <<>>
    ELSE [c \in 1..Len(lines[r]) |-> <<r - 1, c - 1, lines[r][c]>>]
         \o Cells(lines, r + 1)

\* Shape.from_string
from_string(kind, definition) ==
    LET cells   == Cells(definition, 1)
        marks   == {i \in DOMAIN cells : cells[i][3] \in {"O", "@"}}
        last    == CHOOSE i \in marks : \A j \in marks : j <= i
        origin  == IF marks = {} THEN <<0, 0>>
                   ELSE <<cells[last][1], cells[last][2]>>
        filled  == SelectSeq(cells, LAMBDA x : x[3] \in {"X", "O"})
    IN  [kind               |-> kind,
         origin             |-> origin,
         can_be_transformed |-> marks # {},
         squares            |-> [i \in DOMAIN filled |->
                                    <<filled[i][1] - origin[1],
                                      filled[i][2] - origin[2]>>]]

\* Blokus.shapes
shapes == [k \in ShapeKind |-> from_string(k, definitions[k])]

\* Shape.flip_horizontally
Shape_flip_horizontally(shape) ==
    IF shape.can_be_transformed
    THEN [shape EXCEPT !.squares =
            [i \in DOMAIN @ |-> <<@[i][1], -@[i][2]>>]]
    ELSE shape

\* Shape.rotate_left
Shape_rotate_left(shape) ==
    IF shape.can_be_transformed
    THEN [shape EXCEPT !.squares =
            [i \in DOMAIN @ |-> <<-@[i][2], @[i][1]>>]]
    ELSE shape

\* A bug Shape_rotate_right could have: the column is used twice.
Shape_rotate_right_ColumnTwice(shape) ==
    IF shape.can_be_transformed
    THEN [shape EXCEPT !.squares =
            [i \in DOMAIN @ |-> <<@[i][2], -@[i][2]>>]]
    ELSE shape

\* Shape.rotate_right
Shape_rotate_right(shape) ==
    IF shape.can_be_transformed
    THEN [shape EXCEPT !.squares =
            [i \in DOMAIN @ |-> <<@[i][2], -@[i][1]>>]]
    ELSE shape

\* ------------------------------------------------------------------- pieces
RECURSIVE RotateRightTimes(_, _)
RotateRightTimes(shape, n) ==
    IF n = 0 THEN shape
    ELSE RotateRightTimes(Shape_rotate_right(shape), n - 1)

\* Piece.__init__: an own copy of the shape, flipped unless face_up, then
\* right-rotated rotation % 4 times; no anchor yet.
NewPiece(shape, face_up, rotation) ==
    [shape  |-> RotateRightTimes(
                    IF face_up THEN shape ELSE Shape_flip_horizontally(shape),
                    rotation % 4),
     anchor |-> None]

\* Piece.set_anchor
set_anchor(piece, anchor) == [piece EXCEPT !.anchor = anchor]

\* Piece._check_anchor: whether it raises
check_anchor(piece) == piece.anchor = None

\* Piece.squares
squares(piece) ==
    IF check_anchor(piece) THEN "NoAnchorSet"
    ELSE [i \in DOMAIN piece.shape.squares |->
            <<piece.anchor[1] + piece.shape.squares[i][1],
              piece.anchor[2] + piece.shape.squares[i][2]>>]

SquareSet(piece) == {squares(piece)[i] : i \in DOMAIN piece.shape.squares}

cardinal_positions == {<<-1, 0>>, <<0, 1>>, <<1, 0>>, <<0, -1>>}

intercardinal_positions == {<<-1, -1>>, <<-1, 1>>, <<1, 1>>, <<1, -1>>}

\* Piece.cardinal_neighbors
cardinal_neighbors(piece) ==
    IF check_anchor(piece) THEN "NoAnchorSet"
    ELSE {<<s[1] + d[1], s[2] + d[2]>> :
            s \in SquareSet(piece), d \in cardinal_positions}
            \ SquareSet(piece)

\* A bug intercardinal_neighbors could have: the cardinal neighbours are not
\* taken out.
intercardinal_neighbors_KeepsCardinal(piece) ==
    IF check_anchor(piece) THEN "NoAnchorSet"
    ELSE {<<s[1] + d[1], s[2] + d[2]>> :
            s \in SquareSet(piece), d \in intercardinal_positions}
            \ SquareSet(piece)

\* Piece.intercardinal_neighbors
intercardinal_neighbors(piece) ==
    IF check_anchor(piece) THEN "NoAnchorSet"
    ELSE {<<s[1] + d[1], s[2] + d[2]>> :
            s \in SquareSet(piece), d \in intercardinal_positions}
            \ (cardinal_neighbors(piece) \cup SquareSet(piece))

\* ------------------------------------------------------------ caller inputs
Anchors ==
    ((-1..MaxAnchor) \X (-1..MaxAnchor)) \cup {<<MinSize - 1, MinSize - 1>>}

\* The pieces a caller can build: any kind, either face, any rotation,
\* anchored or not.
Pieces ==
    LET fresh == {NewPiece(shapes[k], f, r) :
                    k \in ShapeKind, f \in BOOLEAN, r \in 0..3}
    IN  fresh \cup {set_anchor(p, a) : p \in fresh, a \in Anchors}

\* ------------------------------------------------------------- engine state
\* Blokus._size: every board of the model has the smallest size the
\* constructor accepts.
size == MinSize

VARIABLES
    num_players,      \* Blokus._num_players
    start_positions,  \* Blokus._start_positions
    grid,             \* Blokus._grid: [Points -> None or <<player, kind>>]
    curr_player,      \* Blokus._curr_player
    num_moves,        \* Blokus._num_moves
    retired_players,  \* Blokus._retired_players
    played_pieces,    \* Blokus._played_pieces: sequence of <<player, kind>>
    op,               \* the last call: "init", "maybe_place" or "retire"
    ret,              \* what it returned: "true", "false", "ValueError" if it
                      \* raised, "none" if it returns nothing
    placed,           \* kind and squares of the piece of the last maybe_place
                      \* that returned true
    resets,           \* the number of reset() calls so far
    args,             \* the arguments of a constructor call, or the piece or
                      \* shape a caller's call is made on
    built,            \* the engine the constructor call has built, or None
    heap,             \* the Shape objects, by identity
    caller_pieces     \* the caller's Piece objects: None, or the identity of
                      \* the piece's shape and the piece's anchor

config == <<num_players, start_positions>>
game == <<grid, curr_player, num_moves, retired_players, played_pieces>>
\* What the calls on an engine leave alone: the constructor's arguments and
\* result, and the caller's shapes and pieces.
bench == <<args, built, heap, caller_pieces>>
vars == <<num_players, start_positions, grid, curr_player, num_moves,
          retired_players, played_pieces, op, ret, placed, resets, args,
          built, heap, caller_pieces>>

Bool(b) == IF b THEN "true" ELSE "false"

Range(seq) == {seq[i] : i \in DOMAIN seq}

Points == (0..size - 1) \X (0..size - 1)

Players == 1..num_players

\* The start-position sets a caller passes to the constructor.
StartChoices ==
    {{<<0, 0>>, <<1, 1>>},
     {<<0, 0>>, <<0, 1>>, <<1, 0>>, <<1, 1>>}}

\* A bug ValidConfig could have: a coordinate equal to the size is let through.
ValidConfig_CoordinateUpToSize(n, sz, starts) ==
    /\ ~(n < MinPlayers \/ n > MaxPlayers)
    /\ ~(sz < MinSize)
    /\ \A position \in starts : \A i \in 1..2 :
            ~(position[i] < 0 \/ position[i] > sz)
    /\ ~(Cardinality(starts) < n)

\* Blokus.__init__: the argument checks
ValidConfig(n, sz, starts) ==
    /\ ~(n < MinPlayers \/ n > MaxPlayers)
    /\ ~(sz < MinSize)
    /\ \A position \in starts : \A i \in 1..2 :
            ~(position[i] < 0 \/ position[i] > sz - 1)
    /\ ~(Cardinality(starts) < n)

\* Blokus.__init__: the state it builds
Init ==
    /\ num_players \in MinPlayers..MaxPlayers
    /\ start_positions \in StartChoices
    /\ ValidConfig(num_players, size, start_positions)
    /\ grid = [p \in Points |-> None]
    /\ retired_players = {}
    /\ curr_player = 1
    /\ num_moves = 0
    /\ played_pieces = <<>>
    /\ op = "init"
    /\ ret = "none"
    /\ placed = None
    /\ resets = 0
    /\ args = None
    /\ built = None
    /\ heap = None
    /\ caller_pieces = None

\* ------------------------------------------------------------------ queries
KindSeq == SubSeq(KindOrder, 1, NumKinds)

\* A bug remaining_shapes could have: the owner of a cell is not looked at.
remaining_shapes_AnyOwner(player) ==
    LET played_shapes == {grid[p][2] : p \in {q \in Points : grid[q] # None}}
    IN  SelectSeq(KindSeq, LAMBDA shape : shape \notin played_shapes)

\* A bug remaining_shapes could have: nothing is ever taken off the list.
remaining_shapes_Everything(player) == KindSeq

\* Blokus.remaining_shapes
remaining_shapes(player) ==
    LET played_shapes ==
            {grid[p][2] : p \in {q \in Points :
                                    grid[q] # None /\ grid[q][1] = player}}
    IN  SelectSeq(KindSeq, LAMBDA shape : shape \notin played_shapes)

\* Blokus.game_over
game_over ==
    IF Cardinality(retired_players) = num_players THEN TRUE
    ELSE IF /\ Cardinality(retired_players) = 1
            /\ num_players = 2
            /\ Len(remaining_shapes(curr_player)) = 0
    THEN TRUE
    ELSE LET done == Cardinality({num \in Players :
                                    Len(remaining_shapes(num)) = 0})
         IN  done + Cardinality(retired_players) = num_players

InBounds(p) == p[1] < size /\ p[1] >= 0 /\ p[2] < size /\ p[2] >= 0

\* A bug any_wall_collisions could have: the first row and column count as
\* walls.
any_wall_collisions_EdgeIsWall(piece) ==
    IF piece.anchor = None THEN "NoAnchorSet"
    ELSE Bool(\E s \in SquareSet(piece) :
                s[1] <= 0 \/ s[2] <= 0 \/ s[1] >= size \/ s[2] >= size)

\* Blokus.any_wall_collisions
any_wall_collisions(piece) ==
    IF piece.anchor = None THEN "NoAnchorSet"
    ELSE Bool(\E s \in SquareSet(piece) :
                s[1] < 0 \/ s[2] < 0 \/ s[1] >= size \/ s[2] >= size)

\* A bug any_collisions could have: the played pieces are not looked at.
any_collisions_WallsOnly(piece) == any_wall_collisions(piece)

\* Blokus.any_collisions
any_collisions(piece) ==
    LET wall == any_wall_collisions(piece)
    IN  IF wall = "false"
        THEN Bool(\E s \in SquareSet(piece) : grid[s] # None)
        ELSE wall

\* A bug OpeningRuleApplies could have: the retired players are not taken off.
OpeningRuleApplies_IgnoresRetired == num_moves < num_players

\* A bug OpeningRuleApplies could have: the comparison lets equality through.
OpeningRuleApplies_AtMost ==
    num_moves <= num_players - Cardinality(retired_players)

\* legal_to_place: whether the start-position rule is the one applied
OpeningRuleApplies == num_moves < num_players - Cardinality(retired_players)

\* A bug covers_start could have: every square must be a start position.
covers_start_EverySquare(piece) ==
    \A i \in DOMAIN squares(piece) : squares(piece)[i] \in start_positions

\* legal_to_place: some square of the piece is a start position
covers_start(piece) ==
    \E i \in DOMAIN squares(piece) : squares(piece)[i] \in start_positions

\* A bug shares_edge could have: the owner of the neighbour is not looked at.
shares_edge_AnyOwner(piece) ==
    \E n \in cardinal_neighbors(piece) : InBounds(n) /\ grid[n] # None

\* legal_to_place: some cardinal neighbour on the board is the current
\* player's
shares_edge(piece) ==
    \E n \in cardinal_neighbors(piece) :
        InBounds(n) /\ grid[n] # None /\ grid[n][1] = curr_player

\* legal_to_place: some intercardinal neighbour on the board is the current
\* player's
shares_corner(piece) ==
    \E n \in intercardinal_neighbors(piece) :
        InBounds(n) /\ grid[n] # None /\ grid[n][1] = curr_player

\* A bug legal_to_place could have: the anchor is tested before the kind.
legal_to_place_AnchorFirst(piece) ==
    IF piece.anchor = None THEN "NoAnchorSet"
    ELSE IF piece.shape.kind \notin Range(remaining_shapes(curr_player))
    THEN "AlreadyPlayedShape"
    ELSE IF any_collisions(piece) = "true" THEN "false"
    ELSE IF OpeningRuleApplies
    THEN Bool(covers_start(piece))
    ELSE IF shares_edge(piece) THEN "false"
    ELSE Bool(shares_corner(piece))

\* Blokus.legal_to_place
legal_to_place(piece) ==
    IF piece.shape.kind \notin Range(remaining_shapes(curr_player))
    THEN "AlreadyPlayedShape"
    ELSE IF piece.anchor = None THEN "NoAnchorSet"
    ELSE IF any_collisions(piece) = "true" THEN "false"
    ELSE IF OpeningRuleApplies
    THEN Bool(covers_start(piece))
    ELSE IF shares_edge(piece) THEN "false"
    ELSE Bool(shares_corner(piece))

\* ---------------------------------------------------------- available_moves
\* available_moves: the pieces tried, in the order of the three loops, from
\* row first_row on.
Candidates(first_row) ==
    LET kinds == remaining_shapes(curr_player)
        rows  == size - first_row
        at(i) == LET cell == (i - 1) \div Len(kinds)
                 IN  set_anchor(
                        NewPiece(shapes[kinds[((i - 1) % Len(kinds)) + 1]],
                                 TRUE, 0),
                        <<first_row + (cell \div size), cell % size>>)
    IN  [i \in 1..(rows * size * Len(kinds)) |-> at(i)]

\* The pieces of a list that legal_to_place accepts, or the error it raises
\* on one of them. The pieces are told apart as objects, so the set the
\* code collects them in has one member for each member of the list.
LegalAmong(pieces) ==
    IF \E i \in DOMAIN pieces : legal_to_place(pieces[i]) \notin {"true", "false"}
    THEN "ValueError"
    ELSE SelectSeq(pieces, LAMBDA piece : legal_to_place(piece) = "true")

\* A bug available_moves could have: the first row of the board is not
\* tried.
available_moves_FromRowOne == LegalAmong(Candidates(1))

\* Blokus.available_moves
available_moves == LegalAmong(Candidates(0))

\* ------------------------------------------------------------------ scoring
RECURSIVE Sum(_)
Sum(seq) == IF seq = <<>> THEN 0 ELSE Head(seq) + Sum(Tail(seq))

\* get_score: the length of a definition once spaces, "@" and line breaks
\* are taken out
DefinitionLen(kind) ==
    LET cells == Cells(definitions[kind], 1)
    IN  Len(SelectSeq(cells, LAMBDA x : x[3] \notin {" ", "@"}))

\* get_score: for x in range(-1, -len(played_pieces), -1), an entry of
\* player with ShapeKind.ONE.  The range stops before the oldest entry, and
\* the scan goes on past the entries of player that are not ONE.
BonusFound(player) ==
    \E x \in 1..(Len(played_pieces) - 1) :
        LET played_piece == played_pieces[Len(played_pieces) + 1 - x]
        IN  played_piece[1] = player /\ played_piece[2] = "ONE"

\* A bug get_score could have: the kinds counted are the placed ones.
get_score_CountsPlaced(player) ==
    LET pieces == remaining_shapes(player)
    IN  IF Len(pieces) # 0
        THEN -Sum([i \in 1..(Len(KindSeq) - Len(pieces)) |->
                        DefinitionLen(
                            SelectSeq(KindSeq,
                                LAMBDA k : k \notin Range(pieces))[i])])
        ELSE IF BonusFound(player) THEN 20 ELSE 15

\* Blokus.get_score
get_score(player) ==
    LET pieces == remaining_shapes(player)
    IN  IF Len(pieces) # 0
        THEN -Sum([i \in DOMAIN pieces |-> DefinitionLen(pieces[i])])
        ELSE IF BonusFound(player) THEN 20 ELSE 15

\* Blokus.winners: None, or the list of the players with the highest score
winners ==
    IF game_over
    THEN LET Max(a, b) == IF a > b THEN a ELSE b
             high_score ==
                CHOOSE h \in {-999} \cup {get_score(pl) : pl \in Players} :
                    \A pl \in Players : h >= Max(-999, get_score(pl))
         IN  SelectSeq([i \in 1..num_players |-> i],
                       LAMBDA pl : get_score(pl) = high_score)
    ELSE None

\* ------------------------------------------------------------- board text
\* ShapeKind.value: the letter of a kind.
KindValue ==
    [k \in ShapeKind |->
        CASE k = "ONE"   -> "1"
          [] k = "TWO"   -> "2"
          [] k = "THREE" -> "3"
          [] k = "C"     -> "C"]

\* ShapeKind(value)
KindOfValue(value) == CHOOSE k \in ShapeKind : KindValue[k] = value

\* Blokus.grid: the board as a list of rows.
GridRows == [r \in 1..size |-> [c \in 1..size |-> grid[<<r - 1, c - 1>>]]]

\* A text is a sequence of one-character strings.
RECURSIVE Flatten(_)
Flatten(texts) ==
    IF texts = <<>> THEN <<>> ELSE Head(texts) \o Flatten(Tail(texts))

\* A bug cell_to_string could have: player 2 is written like player 1.
cell_to_string_LetterFirst(cell) ==
    IF cell = None THEN <<" ", " ">>
    ELSE IF cell[1] = 1 THEN <<KindValue[cell[2]], " ">>
    ELSE IF cell[1] = 2 THEN <<KindValue[cell[2]], " ">>
    ELSE <<>>

\* grid_to_string: what a cell adds to its row
cell_to_string(cell) ==
    IF cell = None THEN <<" ", " ">>
    ELSE IF cell[1] = 1 THEN <<KindValue[cell[2]], " ">>
    ELSE IF cell[1] = 2 THEN <<" ", KindValue[cell[2]]>>
    ELSE <<>>

\* grid_to_string
grid_to_string(rows) ==
    LET border  == <<"+">> \o [i \in 1..(Len(rows) * 2) |-> "-"]
                          \o <<"+", "\n">>
        row_str == [r \in DOMAIN rows |->
                        <<"|">>
                        \o Flatten([c \in DOMAIN rows[r] |->
                                        cell_to_string(rows[r][c])])
                        \o <<"|", "\n">>]
    IN  border \o Flatten(row_str) \o border

\* str.strip
RECURSIVE strip(_)
strip(s) ==
    IF s = <<>> THEN s
    ELSE IF Head(s) \in {" ", "\n"} THEN strip(Tail(s))
    ELSE IF s[Len(s)] \in {" ", "\n"} THEN strip(SubSeq(s, 1, Len(s) - 1))
    ELSE s

\* str.split("\n")
RECURSIVE split(_)
split(s) ==
    LET breaks == {i \in DOMAIN s : s[i] = "\n"}
        first  == CHOOSE i \in breaks : \A j \in breaks : i <= j
    IN  IF breaks = {} THEN <<s>>
        ELSE <<SubSeq(s, 1, first - 1)>>
             \o split(SubSeq(s, first + 1, Len(s)))

\* s[from:to] for 0 <= from <= to
Slice(s, from, to) ==
    SubSeq(s, from + 1, IF to < Len(s) THEN to ELSE Len(s))

\* string_to_grid
string_to_grid(s) ==
    LET lines  == split(strip(s))
        sz     == (Len(lines[1]) - 2) \div 2
        row(line) ==
            LET cell_str == SubSeq(line, 2, Len(line) - 1)
            IN  [j \in 1..sz |->
                    LET cell == Slice(cell_str, (j - 1) * 2, (j - 1) * 2 + 2)
                    IN  IF strip(cell) # <<>>
                        THEN IF cell[1] # " "
                             THEN <<1, KindOfValue(cell[1])>>
                             ELSE <<2, KindOfValue(cell[2])>>
                        ELSE None]
    IN  [i \in 1..(Len(lines) - 2) |-> row(lines[i + 1])]

\* ------------------------------------------------------------ turn advance
NextPlayer(p) == (p % num_players) + 1

\* A bug SkipRetired could have: one step instead of a loop.
SkipRetired_Once(p, retired) == IF p \in retired THEN NextPlayer(p) ELSE p

\* while p in retired: p = (p % num_players) + 1
RECURSIVE SkipRetired(_, _)
SkipRetired(p, retired) ==
    IF p \in retired THEN SkipRetired(NextPlayer(p), retired) ELSE p

\* A bug AdvanceFrom could have: the retired players are not skipped.
AdvanceFrom_NoSkip(p, retired) == p

\* The branch that closes maybe_place and retire.
AdvanceFrom(p, retired) ==
    IF Cardinality(retired) # num_players
    THEN SkipRetired(p, retired)
    ELSE NextPlayer(p)

\* The while loop followed one assignment at a time: where the pointer is,
\* how many times it was assigned, and whether the loop has ended. A loop
\* still running after more assignments than there are players is left there.
RECURSIVE Walk(_, _, _)
Walk(p, retired, steps) ==
    IF p \notin retired
    THEN [pointer |-> p, steps |-> steps, done |-> TRUE]
    ELSE IF steps > num_players
    THEN [pointer |-> p, steps |-> steps, done |-> FALSE]
    ELSE Walk(NextPlayer(p), retired, steps + 1)

\* A bug SkipLoop could have: the loop is entered when every player is
\* retired.
SkipLoop_AlwaysWalks(p, retired) == Walk(p, retired, 0)

\* The branch that closes maybe_place and retire, with its assignments
\* counted.
SkipLoop(p, retired) ==
    IF Cardinality(retired) # num_players
    THEN Walk(p, retired, 0)
    ELSE [pointer |-> NextPlayer(p), steps |-> 1, done |-> TRUE]

\* ---------------------------------------------------------------- maybe_place
\* A bug maybe_place_ret could have: no test of the retired set.
maybe_place_ret_IgnoresRetired(piece) ==
    LET legal == legal_to_place(piece)
    IN  IF legal # "true" THEN legal
        ELSE IF piece.shape.kind \notin Range(remaining_shapes(curr_player))
        THEN "AlreadyPlayedShape"
        ELSE "true"

\* A bug maybe_place_ret could have: legal_to_place is called before the
\* retired set is looked at, so its errors come first.
maybe_place_ret_LegalFirst(piece) ==
    LET legal == legal_to_place(piece)
    IN  IF legal \notin {"true", "false"} THEN legal
        ELSE IF curr_player \in retired_players THEN "false"
        ELSE IF legal # "true" THEN legal
        ELSE IF piece.shape.kind \notin Range(remaining_shapes(curr_player))
        THEN "AlreadyPlayedShape"
        ELSE "true"

\* What maybe_place returns or raises.
maybe_place_ret(piece) ==
    IF curr_player \in retired_players THEN "false"
    ELSE LET legal == legal_to_place(piece)
         IN  IF legal # "true" THEN legal
             ELSE IF piece.shape.kind \notin Range(remaining_shapes(curr_player))
             THEN "AlreadyPlayedShape"
             ELSE "true"

\* A bug Commit could have: only the first square is written.
Commit_FirstSquareOnly(piece) ==
    [p \in Points |->
        IF p = squares(piece)[1]
        THEN <<curr_player, piece.shape.kind>>
        ELSE grid[p]]

\* for r, c in piece.squares(): grid[r][c] = (curr_player, kind)
Commit(piece) ==
    [p \in Points |->
        IF p \in SquareSet(piece)
        THEN <<curr_player, piece.shape.kind>>
        ELSE grid[p]]

\* What the caller of a method sees: its boolean, or the ValueError.
Outcome(r) == IF r \in {"true", "false"} THEN r ELSE "ValueError"

\* A bug maybe_place could have: the move counter goes up on every call.
maybe_place_CountsEveryCall(piece) ==
    LET r == maybe_place_ret(piece)
    IN  /\ op' = "maybe_place"
        /\ ret' = Outcome(r)
        /\ UNCHANGED <<config, resets, bench>>
        /\ num_moves' = num_moves + 1
        /\ IF r = "true"
           THEN /\ grid' = Commit(piece)
                /\ played_pieces' =
                        Append(played_pieces, <<curr_player, piece.shape.kind>>)
                /\ curr_player' =
                        AdvanceFrom(NextPlayer(curr_player), retired_players)
                /\ placed' = [kind    |-> piece.shape.kind,
                               squares |-> SquareSet(piece)]
                /\ UNCHANGED retired_players
           ELSE UNCHANGED <<grid, curr_player, retired_players, played_pieces,
                            placed>>

\* Blokus.maybe_place
maybe_place(piece) ==
    LET r == maybe_place_ret(piece)
    IN  /\ op' = "maybe_place"
        /\ ret' = Outcome(r)
        /\ UNCHANGED <<config, resets, bench>>
        /\ IF r = "true"
           THEN /\ grid' = Commit(piece)
                /\ played_pieces' =
                        Append(played_pieces, <<curr_player, piece.shape.kind>>)
                /\ num_moves' = num_moves + 1
                /\ curr_player' =
                        AdvanceFrom(NextPlayer(curr_player), retired_players)
                /\ placed' = [kind    |-> piece.shape.kind,
                               squares |-> SquareSet(piece)]
                /\ UNCHANGED retired_players
           ELSE UNCHANGED <<game, placed>>

\* A bug retire could have: the turn stays with the retiring player.
retire_KeepsTurn ==
    LET retired == retired_players \cup {curr_player}
    IN  /\ op' = "retire"
        /\ ret' = "none"
        /\ retired_players' = retired
        /\ UNCHANGED <<config, grid, curr_player, num_moves, played_pieces,
                        placed, resets, bench>>

\* A bug retire could have: the player is not put in the retired set.
retire_ForgetsPlayer ==
    /\ op' = "retire"
    /\ ret' = "none"
    /\ curr_player' = AdvanceFrom(curr_player, retired_players)
    /\ UNCHANGED <<config, grid, num_moves, retired_players, played_pieces,
                    placed, resets, bench>>

\* Blokus.retire
retire ==
    LET retired == retired_players \cup {curr_player}
    IN  /\ op' = "retire"
        /\ ret' = "none"
        /\ retired_players' = retired
        /\ curr_player' = AdvanceFrom(curr_player, retired)
        /\ UNCHANGED <<config, grid, num_moves, played_pieces, placed, resets,
                        bench>>

Next ==
    \/ \E piece \in Pieces : maybe_place(piece)
    \/ retire

Spec == Init /\ [][Next]_vars

\* -------------------------------------------------------------------- turns
\* A game in which every call ends a turn: a maybe_place that places, or a
\* retire. The callers go on calling for as long as a call changes
\* something.
PlaceTurn ==
    \E piece \in Pieces : maybe_place(piece) /\ num_moves' = num_moves + 1

Turn == PlaceTurn \/ retire

SpecTurns == Init /\ [][Turn]_vars /\ WF_vars(Turn)

\* --------------------------------------------------- the caller's pieces
\* The game variables of a specification that plays no game.
NoGame ==
    /\ num_players = None
    /\ start_positions = None
    /\ grid = None
    /\ curr_player = None
    /\ num_moves = None
    /\ retired_players = None
    /\ played_pieces = None
    /\ placed = None
    /\ resets = 0

\* The identities of the Shape objects: one per kind for the templates in
\* Blokus._all_shapes, and one for the copy each of the caller's pieces
\* owns.
PieceIds == {"P1", "P2"}

ObjectIds == ShapeKind \cup PieceIds

\* The anchors the caller gives its pieces.
CallerAnchors == {<<0, 0>>, <<2, -1>>}

\* The piece a caller's Piece object is, read through its shape reference.
PieceValue(id) ==
    [shape  |-> heap[caller_pieces[id].shape],
     anchor |-> caller_pieces[id].anchor]

InitPieces ==
    /\ heap = [o \in ObjectIds |-> None]
    /\ caller_pieces = [id \in PieceIds |-> None]
    /\ op = "none"
    /\ ret = "none"
    /\ args = None
    /\ built = None
    /\ NoGame

\* Blokus.shapes: every template is parsed again and put in _all_shapes.
Blokus_shapes ==
    /\ op' = "shapes"
    /\ ret' = "none"
    /\ args' = None
    /\ heap' = [o \in ObjectIds |->
                    IF o \in ShapeKind THEN shapes[o] ELSE heap[o]]
    /\ UNCHANGED <<config, game, placed, resets, built, caller_pieces>>

\* A bug Piece_init could have: no copy is made, the piece shares the
\* template's Shape object and orients it.
Piece_init_SharesShape(id, kind, face_up, rotation) ==
    /\ heap[kind] # None
    /\ op' = "Piece"
    /\ ret' = "none"
    /\ args' = id
    /\ heap' = [heap EXCEPT
                    ![kind] = NewPiece(heap[kind], face_up, rotation).shape]
    /\ caller_pieces' =
            [caller_pieces EXCEPT ![id] = [shape |-> kind, anchor |-> None]]
    /\ UNCHANGED <<config, game, placed, resets, built>>

\* Piece.__init__ on a template out of _all_shapes: the piece gets a deep
\* copy of the template, oriented, as a Shape object of its own.
Piece_init(id, kind, face_up, rotation) ==
    /\ heap[kind] # None
    /\ op' = "Piece"
    /\ ret' = "none"
    /\ args' = id
    /\ heap' = [heap EXCEPT
                    ![id] = NewPiece(heap[kind], face_up, rotation).shape]
    /\ caller_pieces' =
            [caller_pieces EXCEPT ![id] = [shape |-> id, anchor |-> None]]
    /\ UNCHANGED <<config, game, placed, resets, built>>

\* Piece.set_anchor
Piece_set_anchor(id, anchor) ==
    /\ caller_pieces[id] # None
    /\ op' = "set_anchor"
    /\ ret' = "none"
    /\ args' = id
    /\ caller_pieces' =
            [caller_pieces EXCEPT
                ![id] = [shape  |-> @.shape,
                         anchor |-> set_anchor(PieceValue(id), anchor).anchor]]
    /\ UNCHANGED <<config, game, placed, resets, built, heap>>

\* A bug Piece_flip_horizontally could have: no anchor check.
Piece_flip_horizontally_NoCheck(id) ==
    /\ caller_pieces[id] # None
    /\ op' = "flip_horizontally"
    /\ args' = id
    /\ ret' = "none"
    /\ heap' = [heap EXCEPT ![caller_pieces[id].shape] =
                                Shape_flip_horizontally(@)]
    /\ UNCHANGED <<config, game, placed, resets, built, caller_pieces>>

\* Piece.flip_horizontally
Piece_flip_horizontally(id) ==
    /\ caller_pieces[id] # None
    /\ op' = "flip_horizontally"
    /\ args' = id
    /\ IF check_anchor(PieceValue(id))
       THEN ret' = "ValueError" /\ UNCHANGED heap
       ELSE /\ ret' = "none"
            /\ heap' = [heap EXCEPT ![caller_pieces[id].shape] =
                                        Shape_flip_horizontally(@)]
    /\ UNCHANGED <<config, game, placed, resets, built, caller_pieces>>

\* Piece.rotate_left
Piece_rotate_left(id) ==
    /\ caller_pieces[id] # None
    /\ op' = "rotate_left"
    /\ args' = id
    /\ IF check_anchor(PieceValue(id))
       THEN ret' = "ValueError" /\ UNCHANGED heap
       ELSE /\ ret' = "none"
            /\ heap' = [heap EXCEPT ![caller_pieces[id].shape] =
                                        Shape_rotate_left(@)]
    /\ UNCHANGED <<config, game, placed, resets, built, caller_pieces>>

\* Piece.rotate_right
Piece_rotate_right(id) ==
    /\ caller_pieces[id] # None
    /\ op' = "rotate_right"
    /\ args' = id
    /\ IF check_anchor(PieceValue(id))
       THEN ret' = "ValueError" /\ UNCHANGED heap
       ELSE /\ ret' = "none"
            /\ heap' = [heap EXCEPT ![caller_pieces[id].shape] =
                                        Shape_rotate_right(@)]
    /\ UNCHANGED <<config, game, placed, resets, built, caller_pieces>>

\* Shape.flip_horizontally, Shape.rotate_left or Shape.rotate_right called on
\* a template of _all_shapes.
Shape_transform(kind) ==
    /\ heap[kind] # None
    /\ op' = "Shape"
    /\ ret' = "none"
    /\ args' = kind
    /\ heap' \in {[heap EXCEPT ![kind] = Shape_flip_horizontally(@)],
                   [heap EXCEPT ![kind] = Shape_rotate_left(@)],
                   [heap EXCEPT ![kind] = Shape_rotate_right(@)]}
    /\ UNCHANGED <<config, game, placed, resets, built, caller_pieces>>

NextPieces ==
    \/ Blokus_shapes
    \/ \E id \in PieceIds, kind \in ShapeKind, face_up \in BOOLEAN,
          rotation \in 0..3 : Piece_init(id, kind, face_up, rotation)
    \/ \E id \in PieceIds, anchor \in CallerAnchors :
            Piece_set_anchor(id, anchor)
    \/ \E id \in PieceIds : Piece_flip_horizontally(id)
    \/ \E id \in PieceIds : Piece_rotate_left(id)
    \/ \E id \in PieceIds : Piece_rotate_right(id)
    \/ \E kind \in ShapeKind : Shape_transform(kind)

SpecPieces == InitPieces /\ [][NextPieces]_vars

\* -------------------------------------------------------------------- reset
\* A bug reset could have: the retired set is kept.
reset_KeepsRetired ==
    /\ resets < MaxResets
    /\ op' = "reset"
    /\ ret' = "none"
    /\ resets' = resets + 1
    /\ grid' = [p \in Points |-> None]
    /\ curr_player' = 1
    /\ num_moves' = 0
    /\ UNCHANGED <<config, retired_players, played_pieces, placed, bench>>

\* Blokus.reset
reset ==
    /\ resets < MaxResets
    /\ op' = "reset"
    /\ ret' = "none"
    /\ resets' = resets + 1
    /\ grid' = [p \in Points |-> None]
    /\ curr_player' = 1
    /\ num_moves' = 0
    /\ retired_players' = {}
    /\ UNCHANGED <<config, played_pieces, placed, bench>>

InitReset == Init /\ num_players <= MaxResetPlayers

NextReset ==
    \/ \E piece \in Pieces : maybe_place(piece)
    \/ retire
    \/ reset

SpecReset == InitReset /\ [][NextReset]_vars

\* ------------------------------------------------------------------ queries
\* A query called on the engine between two moves: op is its name and ret
\* what the caller gets, the value as text or the error. None of the
\* methods assigns a field of the engine other than the catalog cache.
Query(name, result) ==
    /\ op' = name
    /\ ret' = result
    /\ UNCHANGED <<config, game, placed, resets, bench>>

Query_legal_to_place(piece) ==
    Query("legal_to_place", Outcome(legal_to_place(piece)))

Query_any_collisions(piece) ==
    Query("any_collisions", Outcome(any_collisions(piece)))

Query_any_wall_collisions(piece) ==
    Query("any_wall_collisions", Outcome(any_wall_collisions(piece)))

Query_remaining_shapes(player) ==
    Query("remaining_shapes", ToString(remaining_shapes(player)))

\* A bug get_score could have: the history is reversed in place to be read
\* from its latest entry.
Query_get_score_ReversesHistory(player) ==
    /\ op' = "get_score"
    /\ ret' = ToString(get_score(player))
    /\ played_pieces' =
            [i \in DOMAIN played_pieces |->
                played_pieces[Len(played_pieces) + 1 - i]]
    /\ UNCHANGED <<config, grid, curr_player, num_moves, retired_players,
                    placed, resets, bench>>

Query_get_score(player) == Query("get_score", ToString(get_score(player)))

Query_game_over == Query("game_over", Bool(game_over))

Query_winners == Query("winners", ToString(winners))

Query_available_moves ==
    Query("available_moves",
          IF available_moves = "ValueError" THEN "ValueError"
          ELSE ToString([i \in DOMAIN available_moves |->
                            <<available_moves[i].shape.kind,
                              available_moves[i].anchor>>]))

InitQueries == Init /\ num_players <= MaxQueryPlayers

NextQueries ==
    \/ \E piece \in Pieces : maybe_place(piece)
    \/ retire
    \/ \E piece \in Pieces : Query_legal_to_place(piece)
    \/ \E piece \in Pieces : Query_any_collisions(piece)
    \/ \E piece \in Pieces : Query_any_wall_collisions(piece)
    \/ \E player \in Players : Query_remaining_shapes(player)
    \/ \E player \in Players : Query_get_score(player)
    \/ Query_game_over
    \/ Query_winners
    \/ Query_available_moves

SpecQueries == InitQueries /\ [][NextQueries]_vars

\* -------------------------------------------------------------- constructor
\* The arguments callers try: player counts and sizes around the limits, and
\* start positions on the board, off the board on either axis and on either
\* side, and too few.
CtorPlayers == (MinPlayers - 1)..(MaxPlayers + 1)

CtorSizes == (MinSize - 1)..(MinSize + 1)

CtorStarts ==
    {{},
     {<<0, 0>>},
     {<<0, 0>>, <<MinSize - 1, MinSize - 1>>},
     {<<0, 0>>, <<MinSize, MinSize - 1>>},
     {<<0, 0>>, <<0, MinSize>>},
     {<<0, 0>>, <<-1, 2>>},
     {<<0, 0>>, <<2, -1>>},
     {<<0, 0>>, <<0, 1>>, <<1, 0>>, <<1, 1>>},
     {<<0, 0>>, <<0, 1>>, <<1, 0>>, <<1, 1>>, <<MinSize - 2, MinSize - 2>>}}

\* Blokus.__init__: the engine it builds when no check fails
NewEngine(n, sz, starts) ==
    [grid            |-> [p \in (0..sz - 1) \X (0..sz - 1) |-> None],
     num_players     |-> n,
     size            |-> sz,
     start_positions |-> starts,
     retired_players |-> {},
     curr_player     |-> 1,
     num_moves       |-> 0,
     played_pieces   |-> <<>>]

InitCtor ==
    /\ args \in CtorPlayers \X CtorSizes \X CtorStarts
    /\ built = None
    /\ op = "none"
    /\ ret = "none"
    /\ heap = None
    /\ caller_pieces = None
    /\ NoGame

\* Blokus.__init__
Blokus_init ==
    /\ op = "none"
    /\ op' = "__init__"
    /\ IF ValidConfig(args[1], args[2], args[3])
       THEN /\ ret' = "none"
            /\ built' = NewEngine(args[1], args[2], args[3])
       ELSE /\ ret' = "ValueError"
            /\ built' = None
    /\ UNCHANGED <<config, game, placed, resets, args, heap, caller_pieces>>

NextCtor == Blokus_init

SpecCtor == InitCtor /\ [][NextCtor]_vars

\* ===================================================================== claims
\* The cells of the board that hold a piece of player.
Owned(player) == {p \in Points : grid[p] # None /\ grid[p][1] = player}

\* player has placed every kind of the catalog.
Exhausted(player) == Len(remaining_shapes(player)) = 0

\* Every player is retired or has an empty remaining inventory.
AllDone == \A p \in Players : p \in retired_players \/ Exhausted(p)

\* The players that could take a turn: neither retired nor exhausted.
Active == {p \in Players : p \notin retired_players /\ ~Exhausted(p)}

\* ------------------------------------------------------------------------ C1
\* C1: in every reachable state, game_over is true if and only if every
\* player is retired or has an empty remaining inventory.
C1_GameOverIffAllDone == game_over <=> AllDone

\* A state the claim fails in: everybody is retired or exhausted, one player
\* is both, and game_over is false.
C1_DoubleCounted ==
    /\ AllDone
    /\ \E p \in Players : p \in retired_players /\ Exhausted(p)
    /\ ~game_over

\* ------------------------------------------------------------------------ C2
\* C2: in every reachable state in which game_over is false, curr_player is
\* neither retired nor exhausted.
C2_CurrPlayerActive == ~game_over => curr_player \in Active

\* The same with the intended termination rule in place of game_over.
C2_CurrPlayerActiveUntilAllDone == ~AllDone => curr_player \in Active

\* ------------------------------------------------------------------------ C3
\* The k-th player after p in cyclic order.
CyclicAfter(p, k) == ((p - 1 + k) % num_players) + 1

\* The player whose piece was committed last.
LastMover == played_pieces[Len(played_pieces)][1]

\* C3: after a successful maybe_place by player p, curr_player is the first
\* player after p in cyclic order (possibly p again) that is neither retired
\* nor exhausted, whenever there is one.
C3_NextActivePlayer ==
    [][(op' = "maybe_place" /\ ret' = "true" /\ Active' # {}) =>
        \E k \in 1..num_players :
            /\ curr_player' = CyclicAfter(curr_player, k)
            /\ curr_player' \in Active'
            /\ \A j \in 1..(k - 1) : CyclicAfter(curr_player, j) \notin Active'
      ]_vars

\* A placement after which the turn passed over a retired player, with an
\* exhausted player in the game.
C3_Witness ==
    /\ op = "maybe_place" /\ ret = "true"
    /\ NextPlayer(LastMover) \in retired_players
    /\ curr_player # LastMover
    /\ curr_player \in Active
    /\ \E q \in Players : Exhausted(q)

\* ------------------------------------------------------------------------ C4
\* C4: whenever at least one player is not retired, curr_player is not
\* retired.
C4_CurrPlayerNotRetired ==
    Cardinality(retired_players) < num_players
        => curr_player \notin retired_players

\* A retired player has been skipped: somebody is retired, somebody is not,
\* and a call has moved the turn on.
C4_Witness ==
    /\ retired_players # {}
    /\ Cardinality(retired_players) < num_players
    /\ curr_player \notin retired_players
    /\ NextPlayer(curr_player) \in retired_players
    /\ num_moves > 0

\* ------------------------------------------------------------------------ C5
\* C5: a maybe_place call that returns false or raises leaves the board, the
\* current player, the move counter, the retired set and the history as they
\* were (and the configuration too).
C5_RejectedCallChangesNothing ==
    [][(op' = "maybe_place" /\ ret' # "true") => UNCHANGED <<config, game>>]_vars

\* A rejected call on a board that holds pieces, in a game with a retired
\* player.
C5_Witness ==
    /\ op = "maybe_place" /\ ret = "false"
    /\ num_moves > 0
    /\ retired_players # {}

\* ------------------------------------------------------------------------ C6
\* C6: a successful maybe_place by player p with a piece of kind k sets
\* exactly the squares of the piece to <<p, k>>, leaves every other cell as
\* it was, appends <<p, k>> to the history, adds one to the move counter and
\* leaves the retired set as it was.
C6_PlacementEffect ==
    [][(op' = "maybe_place" /\ ret' = "true") =>
        /\ \A pt \in Points :
                grid'[pt] = IF pt \in placed'.squares
                            THEN <<curr_player, placed'.kind>>
                            ELSE grid[pt]
        /\ played_pieces' =
                played_pieces \o <<<<curr_player, placed'.kind>>>>
        /\ num_moves' = num_moves + 1
        /\ retired_players' = retired_players
      ]_vars

\* A two-square piece committed on a board that already held pieces.
C6_Witness ==
    /\ op = "maybe_place" /\ ret = "true"
    /\ Cardinality(placed.squares) = 2
    /\ num_moves > 1
    /\ \A pt \in placed.squares : grid[pt] = <<LastMover, placed.kind>>

\* ------------------------------------------------------------------------ C7
\* C7: maybe_place(piece) returns true exactly when the current player is not
\* retired and legal_to_place(piece) is true in the same state.
C7_PlacedIffLegal ==
    \A piece \in Pieces :
        maybe_place_ret(piece) = "true"
            <=> (curr_player \notin retired_players
                    /\ legal_to_place(piece) = "true")

\* Both sides happen: a legal piece for a player still in the game, and a
\* legal piece for a current player who is retired.
C7_Witness ==
    /\ curr_player \in retired_players
    /\ \E piece \in Pieces : legal_to_place(piece) = "true"
    /\ op = "maybe_place" /\ ret = "false"

\* ------------------------------------------------------------------------ C8
\* The pieces legal_to_place answers true or false for, less those that hit
\* a wall or an occupied cell.
FreePieces ==
    {piece \in Pieces :
        /\ piece.anchor # None
        /\ piece.shape.kind \in Range(remaining_shapes(curr_player))
        /\ \A s \in SquareSet(piece) : InBounds(s) /\ grid[s] = None}

Abs(x) == IF x < 0 THEN -x ELSE x

\* Some square of the piece is next to (edge) a cell of cells.
EdgeTouch(piece, cells) ==
    \E s \in SquareSet(piece), o \in cells :
        Abs(s[1] - o[1]) + Abs(s[2] - o[2]) = 1

\* Some square of the piece is diagonal to a cell of cells.
CornerTouch(piece, cells) ==
    \E s \in SquareSet(piece), o \in cells :
        Abs(s[1] - o[1]) = 1 /\ Abs(s[2] - o[2]) = 1

Occupied == {p \in Points : grid[p] # None}

\* C8: when the opening rule applies, a piece that hits no wall and no
\* occupied cell is legal if and only if one of its squares is a start
\* position, whatever it is adjacent to.
C8_OpeningRule ==
    OpeningRuleApplies =>
        \A piece \in FreePieces :
            legal_to_place(piece) =
                Bool(SquareSet(piece) \cap start_positions # {})

\* The opening rule at work on a board with pieces: a legal piece that lies
\* along an occupied cell, and a free piece that is illegal.
C8_Witness ==
    /\ OpeningRuleApplies
    /\ \E piece \in FreePieces :
            legal_to_place(piece) = "true" /\ EdgeTouch(piece, Occupied)
    /\ \E piece \in FreePieces :
            legal_to_place(piece) = "false" /\ CornerTouch(piece, Occupied)

\* ------------------------------------------------------------------------ C9
\* C9: when the opening rule does not apply, a piece that hits no wall and no
\* occupied cell is illegal if it lies along a cell of the current player,
\* and otherwise is legal if and only if it touches a cell of the current
\* player by a corner; the other players' cells make no difference.
C9_AdjacencyRule ==
    ~OpeningRuleApplies =>
        \A piece \in FreePieces :
            legal_to_place(piece) =
                IF EdgeTouch(piece, Owned(curr_player)) THEN "false"
                ELSE Bool(CornerTouch(piece, Owned(curr_player)))

\* All three outcomes in one state: a legal piece that lies along another
\* player's cell, a piece refused for an edge although it has a corner, and a
\* piece refused for touching nothing.
C9_Witness ==
    /\ ~OpeningRuleApplies
    /\ \E piece \in FreePieces :
            /\ legal_to_place(piece) = "true"
            /\ EdgeTouch(piece, Occupied \ Owned(curr_player))
    /\ \E piece \in FreePieces :
            /\ legal_to_place(piece) = "false"
            /\ EdgeTouch(piece, Owned(curr_player))
            /\ CornerTouch(piece, Owned(curr_player))
    /\ \E piece \in FreePieces :
            /\ legal_to_place(piece) = "false"
            /\ ~EdgeTouch(piece, Owned(curr_player))

\* ----------------------------------------------------------------------- C10
\* C10: in every reachable state where the current player is not retired,
\* the opening rule applies if and only if the current player has no square
\* on the board.
C10_OpeningIffNoSquares ==
    curr_player \notin retired_players
        => (OpeningRuleApplies <=> Owned(curr_player) = {})

\* A first placement after both placements and retirements.
C10_Witness ==
    /\ curr_player \notin retired_players
    /\ OpeningRuleApplies
    /\ Owned(curr_player) = {}
    /\ num_moves > 0
    /\ retired_players # {}

\* ----------------------------------------------------------------------- C11
\* The kinds of which player has a piece in the placement history.
PlayedKinds(player) ==
    {played_pieces[i][2] :
        i \in {j \in DOMAIN played_pieces : played_pieces[j][1] = player}}

\* C11: legal_to_place raises AlreadyPlayedShape when the current player has
\* already placed the kind of the piece (anchored or not), raises NoAnchorSet
\* when the kind is still to be placed and the piece has no anchor, and
\* otherwise answers true or false without raising.
C11_RaisesExactlyOnContractViolation ==
    \A piece \in Pieces :
        IF piece.shape.kind \in PlayedKinds(curr_player)
        THEN legal_to_place(piece) = "AlreadyPlayedShape"
        ELSE IF piece.anchor = None
        THEN legal_to_place(piece) = "NoAnchorSet"
        ELSE legal_to_place(piece) \in {"true", "false"}

\* One state with every case: an unanchored piece of a played kind, and
\* anchored pieces of a remaining kind that hit a wall, overlap a piece,
\* lie along an own piece, and are legal.
C11_Witness ==
    /\ \E piece \in Pieces :
            /\ piece.anchor = None
            /\ piece.shape.kind \in PlayedKinds(curr_player)
            /\ legal_to_place(piece) = "AlreadyPlayedShape"
    /\ \E piece \in Pieces :
            /\ piece.anchor = None
            /\ legal_to_place(piece) = "NoAnchorSet"
    /\ \E piece \in Pieces :
            /\ any_wall_collisions(piece) = "true"
            /\ legal_to_place(piece) = "false"
    /\ \E piece \in Pieces :
            /\ any_wall_collisions(piece) = "false"
            /\ any_collisions(piece) = "true"
            /\ legal_to_place(piece) = "false"
    /\ \E piece \in FreePieces :
            /\ EdgeTouch(piece, Owned(curr_player))
            /\ legal_to_place(piece) = "false"
    /\ \E piece \in FreePieces : legal_to_place(piece) = "true"

C13_RetireEffect ==
    [][/\ retired_players \subseteq retired_players'
       /\ retired_players' \ retired_players \subseteq {curr_player}
       /\ op' = "retire" =>
            /\ retired_players' = retired_players \cup {curr_player}
            /\ UNCHANGED <<config, grid, num_moves, played_pieces>>
            /\ Active' # {} =>
                 \E k \in 1..num_players :
                    /\ curr_player' = CyclicAfter(curr_player, k)
                    /\ curr_player' \in Active'
                    /\ \A j \in 1..(k - 1) :
                            CyclicAfter(curr_player, j) \notin Active'
      ]_vars

\* A retirement that passed the turn over a retired player to a player
\* still in the game, with an exhausted player who has not retired.
C13_Witness ==
    /\ op = "retire"
    /\ curr_player \in Active
    /\ \E q \in retired_players :
            /\ NextPlayer(q) \in retired_players
            /\ NextPlayer(NextPlayer(q)) = curr_player
    /\ \E q \in Players : Exhausted(q) /\ q \notin retired_players

\* ----------------------------------------------------------------------- C14
\* The kind of the most recent entry of the history that belongs to player,
\* who has one.
LastKindOf(player) ==
    LET mine == {i \in DOMAIN played_pieces : played_pieces[i][1] = player}
        last == CHOOSE i \in mine : \A j \in mine : j <= i
    IN  played_pieces[last][2]

\* C14: a player with an empty remaining inventory scores 20 if the most
\* recent piece of that player in the history is the single square, and 15
\* otherwise.
C14_ExhaustedScore ==
    \A player \in Players :
        Exhausted(player) =>
            get_score(player) = IF LastKindOf(player) = "ONE" THEN 20 ELSE 15

\* A state the claim fails in: a player has placed every kind, the single
\* square before the last one, and scores 20.
C14_BonusForEarlierOne ==
    \E player \in Players :
        /\ Exhausted(player)
        /\ LastKindOf(player) # "ONE"
        /\ get_score(player) = 20

\* ----------------------------------------------------------------------- C15
\* The number of squares of the kinds that are not in kinds.
SquaresOutside(kinds) ==
    Sum([i \in DOMAIN KindSeq |->
            IF KindSeq[i] \in kinds THEN 0
            ELSE Cardinality(Range(shapes[KindSeq[i]].squares))])

\* C15: a player who has not placed every kind scores minus the number of
\* squares of the kinds that player has not placed, retired or not and
\* whatever the others have placed.
C15_UnplayedScore ==
    \A player \in Players :
        PlayedKinds(player) # ShapeKind =>
            get_score(player) = -SquaresOutside(PlayedKinds(player))

\* Scores of a retired player who has placed some kinds but not all and of a
\* player who has placed none, on a board where another player has placed
\* everything.
C15_Witness ==
    /\ \E player \in retired_players :
            /\ PlayedKinds(player) \notin {{}, ShapeKind}
            /\ get_score(player) = -SquaresOutside(PlayedKinds(player))
            /\ get_score(player) < 0
    /\ \E player \in Players :
            /\ PlayedKinds(player) = {}
            /\ get_score(player) = -SquaresOutside({})
    /\ \E player \in Players : PlayedKinds(player) = ShapeKind

\* ----------------------------------------------------------------------- C16
\* The players whose score is the highest.
TopScorers ==
    {pl \in Players : \A other \in Players : get_score(pl) >= get_score(other)}

\* C16: winners is None while some player is neither retired nor exhausted;
\* once every player is retired or exhausted it is the non-empty list of
\* exactly the players with the highest score; in a one-player game whose
\* player has placed every kind it is the list of player 1.
C16_WinnersWhenOver ==
    /\ ~AllDone => winners = None
    /\ AllDone => winners # <<>> /\ Range(winners) = TopScorers
    /\ (num_players = 1 /\ Exhausted(1)) => winners = <<1>>

\* A state the claim fails in: nobody can move any more and winners is None.
C16_NoWinnersThoughAllDone == AllDone /\ winners = None

\* The same with game_over as the engine computes it in place of the
\* termination rule.
C16_WinnersFollowGameOver ==
    /\ ~game_over => winners = None
    /\ game_over => winners # <<>> /\ Range(winners) = TopScorers
    /\ (num_players = 1 /\ Exhausted(1)) => winners = <<1>>

\* ----------------------------------------------------------------------- C17
\* C17: a successful maybe_place takes exactly the kind of the placed piece
\* off the remaining shapes of the player who placed it (the order of the
\* others kept) and leaves every other player's remaining shapes as they
\* were; no maybe_place or retire call puts a kind back on any player's
\* list.  (remaining_shapes reads nothing but the board, so only the calls
\* that change the board are looked at.)
C17_RemainingShrinksByPlacedKind ==
    [][/\ grid' # grid =>
            \A pl \in Players :
                Range(remaining_shapes(pl)') \subseteq
                    Range(remaining_shapes(pl))
       /\ (op' = "maybe_place" /\ ret' = "true") =>
            /\ placed'.kind \in Range(remaining_shapes(curr_player))
            /\ \A pl \in Players :
                    remaining_shapes(pl)' =
                        IF pl = curr_player
                        THEN SelectSeq(remaining_shapes(pl),
                                       LAMBDA k : k # placed'.kind)
                        ELSE remaining_shapes(pl)
      ]_vars

\* A placement by a player who had placed a kind before, on a board where
\* another player has remaining shapes of a different number.
C17_Witness ==
    /\ op = "maybe_place" /\ ret = "true"
    /\ Len(remaining_shapes(LastMover)) < NumKinds - 1
    /\ \E pl \in Players :
            Len(remaining_shapes(pl)) > Len(remaining_shapes(LastMover)) + 1

\* ----------------------------------------------------------------------- C18
\* The cells of the board that hold <<player, kind>>.
CellsOf(player, kind) == {p \in Points : grid[p] = <<player, kind>>}

\* C18: no <<player, kind>> pair is committed twice: the placement history
\* has no entry twice, and the board holds, for every player and kind,
\* either nothing or the squares of one piece of that kind, the first
\* exactly when the pair is not in the history.
C18_KindCommittedAtMostOnce ==
    /\ \A i, j \in DOMAIN played_pieces :
            i # j => played_pieces[i] # played_pieces[j]
    /\ \A player \in Players, kind \in ShapeKind :
            Cardinality(CellsOf(player, kind)) =
                IF kind \in PlayedKinds(player)
                THEN Len(shapes[kind].squares)
                ELSE 0

\* The current player has a kind on the board and a call with a piece of a
\* placed kind has just been refused with the error, several pieces into
\* the game.
C18_Witness ==
    /\ op = "maybe_place" /\ ret = "ValueError"
    /\ PlayedKinds(curr_player) # {}
    /\ curr_player \notin retired_players
    /\ Len(played_pieces) >= 3

\* ----------------------------------------------------------------------- C19
\* C19: no maybe_place or retire call changes or clears a cell that holds a
\* piece, and every square of a committed piece is a cell of the board.
C19_OccupiedCellsKeepTheirValue ==
    [][/\ grid' # grid =>
            \A pt \in Points : grid[pt] # None => grid'[pt] = grid[pt]
       /\ (op' = "maybe_place" /\ ret' = "true") =>
            /\ \A s \in placed'.squares : InBounds(s) /\ grid[s] = None
            /\ \A s \in placed'.squares : grid'[s] # None
      ]_vars

\* A piece committed along the edge of a board that holds pieces, in a
\* state where some piece a caller can build lies on an occupied cell.
C19_Witness ==
    /\ op = "maybe_place" /\ ret = "true"
    /\ num_moves > 2
    /\ \E s \in placed.squares : s[1] = 0 \/ s[2] = 0
    /\ \E piece \in Pieces :
            any_wall_collisions(piece) = "false" /\ any_collisions(piece) = "true"

\* ----------------------------------------------------------------------- C20
\* C20: once game_over is true it is true after every further maybe_place or
\* retire call.
C20_GameOverIsTerminal == [][game_over => game_over']_vars

\* A state the claim fails in: a retire() call has just been made, every
\* player is retired or exhausted, and game_over is false.
C20_OverThenNotOver == op = "retire" /\ AllDone /\ ~game_over

\* The same with the termination rule in place of game_over.
C20_AllDoneIsTerminal == [][AllDone => AllDone']_vars

\* ----------------------------------------------------------------------- C21
\* C21: a constructor call raises if and only if the player count is outside
\* 1..4, the size is below 5, a start position has a coordinate outside
\* 0..size - 1, or there are fewer start positions than players; otherwise
\* it builds an engine with the given player count, size and start
\* positions, a size x size board of empty cells, player 1 to move, no move
\* made, nobody retired and an empty history.
C21_ConstructorChecks ==
    op = "__init__" =>
        LET n      == args[1]
            sz     == args[2]
            starts == args[3]
            bad    == \/ n \notin 1..4
                      \/ sz < 5
                      \/ \E position \in starts :
                            \/ position[1] \notin 0..(sz - 1)
                            \/ position[2] \notin 0..(sz - 1)
                      \/ Cardinality(starts) < n
        IN  /\ ret = "ValueError" <=> bad
            /\ ret # "ValueError" =>
                /\ DOMAIN built.grid = (0..sz - 1) \X (0..sz - 1)
                /\ \A p \in DOMAIN built.grid : built.grid[p] = None
                /\ built.num_players = n
                /\ built.size = sz
                /\ built.start_positions = starts
                /\ built.curr_player = 1
                /\ built.num_moves = 0
                /\ built.retired_players = {}
                /\ built.played_pieces = <<>>

\* A call that built an engine with as many start positions as players on
\* a board larger than the smallest, one of them in the far corner.
C21_BuiltOnLargerBoard ==
    /\ op = "__init__" /\ ret = "none"
    /\ args[2] > MinSize
    /\ Cardinality(args[3]) = args[1]
    /\ <<args[2] - 1, args[2] - 2>> \in args[3]

\* A call refused for nothing but a start position off the board.
C21_Witness ==
    /\ op = "__init__" /\ ret = "ValueError"
    /\ args[1] \in 1..4 /\ args[2] >= 5 /\ Cardinality(args[3]) >= args[1]

\* ----------------------------------------------------------------------- C22
\* C22: reset() empties every cell of the board, gives the turn to player 1,
\* sets the move counter to 0 and empties the retired set, and leaves the
\* player count and the start positions as they were; after it every player
\* has the whole catalog as remaining shapes.
C22_ResetEffect ==
    [][op' = "reset" =>
            /\ \A p \in Points : grid'[p] = None
            /\ curr_player' = 1
            /\ num_moves' = 0
            /\ retired_players' = {}
            /\ UNCHANGED config
            /\ \A pl \in Players : remaining_shapes(pl)' = KindSeq
      ]_vars

\* Right after a reset() of a game in which a player had placed every kind
\* and a player had retired.
C22_Witness ==
    /\ op = "reset"
    /\ \E pl \in Players : PlayedKinds(pl) = ShapeKind
    /\ \E i \in DOMAIN played_pieces : played_pieces[i][1] = 2
    /\ Len(played_pieces) < NumKinds * num_players
    /\ \A pl \in Players : remaining_shapes(pl) = KindSeq

\* ----------------------------------------------------------------------- C23
\* The Shape objects there are: the templates and the copies the caller's
\* pieces own, in whatever orientation the calls have left them.
LiveShapes == {heap[o] : o \in {x \in ObjectIds : heap[x] # None}}

\* C23: for every shape, four rotate_right calls, four rotate_left calls and
\* two flip_horizontally calls each give back the offsets the shape had, in
\* the same order; on a shape that cannot be transformed each single call
\* leaves the offsets as they were.
C23_TransformsCycle ==
    \A shape \in LiveShapes \cup {shapes[k] : k \in ShapeKind} :
        /\ Shape_rotate_right(Shape_rotate_right(
                Shape_rotate_right(Shape_rotate_right(shape)))) = shape
        /\ Shape_rotate_left(Shape_rotate_left(
                Shape_rotate_left(Shape_rotate_left(shape)))) = shape
        /\ Shape_flip_horizontally(Shape_flip_horizontally(shape)) = shape
        /\ ~shape.can_be_transformed =>
                /\ Shape_flip_horizontally(shape) = shape
                /\ Shape_rotate_left(shape) = shape
                /\ Shape_rotate_right(shape) = shape

\* A rotation has just been made; one piece has a shape that can be
\* transformed and is no longer oriented like its template, the other a
\* shape that cannot be transformed.
C23_Witness ==
    /\ op \in {"rotate_left", "rotate_right"} /\ ret = "none"
    /\ \E id \in PieceIds :
            /\ caller_pieces[id] # None
            /\ heap[id].can_be_transformed
            /\ heap[id].squares # shapes[heap[id].kind].squares
            /\ Shape_rotate_right(heap[id]) # heap[id]
    /\ \E id \in PieceIds :
            caller_pieces[id] # None /\ ~heap[id].can_be_transformed

\* ----------------------------------------------------------------------- C24
\* The caller's pieces that have been built.
BuiltPieces == {id \in PieceIds : caller_pieces[id] # None}

\* C24: squares() of an anchored piece is the list of anchor + offset over
\* the offsets of the piece's shape as it is oriented now; on a piece with no
\* anchor squares(), cardinal_neighbors() and intercardinal_neighbors()
\* raise NoAnchorSet, and flip_horizontally(), rotate_left() and
\* rotate_right() raise and leave the offsets as they were (and raise only
\* then).
C24_SquaresAndAnchorCheck ==
    [][/\ \A id \in BuiltPieces :
            LET piece   == PieceValue(id)
                offsets == heap[caller_pieces[id].shape].squares
            IN  IF caller_pieces[id].anchor = None
                THEN /\ squares(piece) = "NoAnchorSet"
                     /\ cardinal_neighbors(piece) = "NoAnchorSet"
                     /\ intercardinal_neighbors(piece) = "NoAnchorSet"
                ELSE /\ Len(squares(piece)) = Len(offsets)
                     /\ \A i \in DOMAIN offsets :
                            squares(piece)[i] =
                                <<caller_pieces[id].anchor[1] + offsets[i][1],
                                  caller_pieces[id].anchor[2] + offsets[i][2]>>
       /\ op' \in {"flip_horizontally", "rotate_left", "rotate_right"} =>
            /\ ret' = "ValueError" <=> caller_pieces[args'].anchor = None
            /\ ret' = "ValueError" => heap' = heap
      ]_vars

\* A flip or rotation has just been refused on a piece with no anchor,
\* while the other piece is anchored off the board's corner and no longer
\* oriented like its template.
C24_Witness ==
    /\ op \in {"flip_horizontally", "rotate_left", "rotate_right"}
    /\ ret = "ValueError"
    /\ heap[args].can_be_transformed
    /\ \E id \in BuiltPieces :
            /\ caller_pieces[id].anchor \notin {None, <<0, 0>>}
            /\ heap[id].squares # shapes[heap[id].kind].squares

\* ----------------------------------------------------------------------- C25
\* C25: building, transforming or re-anchoring a piece changes no template
\* and no other piece, and every access to the catalog gives the same
\* mapping from kinds to origin, transformability and offsets, whatever has
\* been done since the access before.
C25_PiecesOwnTheirShape ==
    [][/\ op' \in {"Piece", "set_anchor", "flip_horizontally", "rotate_left",
                    "rotate_right"} =>
            /\ \A kind \in ShapeKind : heap'[kind] = heap[kind]
            /\ \A id \in BuiltPieces \ {args'} :
                    PieceValue(id)' = PieceValue(id)
       /\ op' = "shapes" => [kind \in ShapeKind |-> heap'[kind]] = shapes
      ]_vars

\* A piece has just been flipped or rotated; the other piece, built from the
\* same template, is oriented differently, and the template is as parsed.
C25_Witness ==
    /\ op \in {"flip_horizontally", "rotate_left", "rotate_right"}
    /\ ret = "none"
    /\ heap[args].can_be_transformed
    /\ \E id \in BuiltPieces \ {args} :
            /\ heap[id].kind = heap[args].kind
            /\ heap[id].squares # heap[args].squares
    /\ heap[heap[args].kind] = shapes[heap[args].kind]
    /\ heap[args] # shapes[heap[args].kind]

\* ----------------------------------------------------------------------- C26
\* C26: for the board of a two-player game, grid_to_string gives a border
\* line, one line per row with two characters per cell between bars (two
\* spaces for an empty cell, the letter of the kind and a space for player
\* 1, a space and the letter for player 2) and the border line again, and
\* string_to_grid gives the board back from it.
C26_GridTextRoundTrip ==
    num_players = 2 =>
        LET text   == grid_to_string(GridRows)
            lines  == split(text)
            border == <<"+">> \o [i \in 1..(2 * size) |-> "-"] \o <<"+">>
        IN  /\ string_to_grid(text) = GridRows
            /\ Len(lines) = size + 3
            /\ lines[1] = border /\ lines[size + 2] = border
            /\ lines[size + 3] = <<>>
            /\ \A r \in 1..size :
                    /\ Len(lines[r + 1]) = 2 * size + 2
                    /\ lines[r + 1][1] = "|"
                    /\ lines[r + 1][2 * size + 2] = "|"
                    /\ \A c \in 1..size :
                            LET cell == grid[<<r - 1, c - 1>>]
                                a    == lines[r + 1][2 * c]
                                b    == lines[r + 1][2 * c + 1]
                            IN  IF cell = None THEN a = " " /\ b = " "
                                ELSE IF cell[1] = 1
                                THEN a = KindValue[cell[2]] /\ b = " "
                                ELSE a = " " /\ b = KindValue[cell[2]]

\* The board of a two-player game on which both players have placed every
\* kind, one of them in the first column.
C26_Witness ==
    /\ num_players = 2
    /\ Exhausted(1) /\ Exhausted(2)
    /\ \E r \in 0..(size - 1) : grid[<<r, 0>>] # None /\ grid[<<r, 0>>][1] = 2
    /\ string_to_grid(grid_to_string(GridRows)) = GridRows

\* ----------------------------------------------------------------------- C27
\* The players that are not retired and have no piece in the history.
UnmovedPlayers ==
    {p \in Players : p \notin retired_players /\ PlayedKinds(p) = {}}

\* What legal_to_place answers for the pieces that hit nothing when the
\* opening rule is the one applied while the move count is below threshold.
OpeningRuleWhileBelow(threshold) ==
    \A piece \in FreePieces :
        legal_to_place(piece) =
            IF num_moves < threshold
            THEN Bool(SquareSet(piece) \cap start_positions # {})
            ELSE IF EdgeTouch(piece, Owned(curr_player)) THEN "false"
            ELSE Bool(CornerTouch(piece, Owned(curr_player)))

\* C27 as stated: the opening rule is the rule applied exactly while the
\* number of successful moves is less than the number of players that have
\* not yet moved and are not retired.
C27_OpeningWhileBelowUnmoved ==
    OpeningRuleWhileBelow(Cardinality(UnmovedPlayers))

\* C27, amended: the opening rule is the rule applied exactly while the
\* number of successful moves is less than the number of players that are
\* not retired; otherwise the adjacency rule is applied.
C27_OpeningWhileBelowUnretired ==
    OpeningRuleWhileBelow(Cardinality(Players \ retired_players))

\* After a placement and a retirement, a player that has not moved yet may
\* place on a start position away from its (absent) cells, although the
\* moves are no fewer than the unmoved players.
C27_Witness ==
    /\ retired_players # {}
    /\ num_moves >= Cardinality(UnmovedPlayers)
    /\ num_moves < Cardinality(Players \ retired_players)
    /\ \E piece \in FreePieces :
            /\ legal_to_place(piece) = "true"
            /\ ~CornerTouch(piece, Owned(curr_player))

\* ----------------------------------------------------------------------- C28
\* The squares of an anchored piece: its anchor moved by each offset.
Covered(piece) ==
    {<<piece.anchor[1] + piece.shape.squares[i][1],
       piece.anchor[2] + piece.shape.squares[i][2]>> :
        i \in DOMAIN piece.shape.squares}

\* Some square of an anchored piece has a row or column below 0 or at size
\* or above.
OffBoard(piece) ==
    \E s \in Covered(piece) :
        s[1] \notin 0..(size - 1) \/ s[2] \notin 0..(size - 1)

Window(piece) ==
    {<<s[1] + dr, s[2] + dc>> :
        s \in Covered(piece), dr \in -1..1, dc \in -1..1}

\* p is one step north, south, east or west of a square of the piece and is
\* not a square of the piece.
BesideThePiece(p, piece) ==
    /\ p \notin Covered(piece)
    /\ \E s \in Covered(piece) : Abs(p[1] - s[1]) + Abs(p[2] - s[2]) = 1

\* p is diagonally adjacent to a square of the piece and is neither a
\* square of the piece nor beside it.
DiagonalToThePiece(p, piece) ==
    /\ p \notin Covered(piece)
    /\ ~BesideThePiece(p, piece)
    /\ \E s \in Covered(piece) :
            Abs(p[1] - s[1]) = 1 /\ Abs(p[2] - s[2]) = 1

\* C29: for an anchored piece, cardinal_neighbors() is exactly the set of
\* points one step north, south, east or west of a square of the piece that
\* are not squares of the piece, intercardinal_neighbors() is exactly the
\* set of points diagonally adjacent to a square of the piece that are
\* neither squares of the piece nor cardinal neighbours, and the squares,
\* the cardinal neighbours and the intercardinal neighbours are pairwise
\* disjoint.
C29_NeighbourSets ==
    \A id \in BuiltPieces :
        caller_pieces[id].anchor # None =>
            LET piece == PieceValue(id)
                card  == cardinal_neighbors(piece)
                diag  == intercardinal_neighbors(piece)
            IN  /\ \A p \in card : BesideThePiece(p, piece)
                /\ \A p \in diag : DiagonalToThePiece(p, piece)
                /\ \A p \in Window(piece) :
                        /\ BesideThePiece(p, piece) => p \in card
                        /\ DiagonalToThePiece(p, piece) => p \in diag
                /\ card \cap diag = {}
                /\ card \cap Covered(piece) = {}
                /\ diag \cap Covered(piece) = {}

\* An anchored piece of more than one square, turned away from its
\* template, one of whose diagonal points is beside another of its squares.
C29_Witness ==
    \E id \in BuiltPieces :
        /\ caller_pieces[id].anchor \notin {None, <<0, 0>>}
        /\ Cardinality(Covered(PieceValue(id))) > 1
        /\ heap[id].squares # shapes[heap[id].kind].squares
        /\ intercardinal_neighbors(PieceValue(id)) # {}
        /\ \E s \in Covered(PieceValue(id)),
              d \in intercardinal_positions :
                <<s[1] + d[1], s[2] + d[2]>>
                    \in cardinal_neighbors(PieceValue(id))

\* ----------------------------------------------------------------------- C30
\* C30: in a successful maybe_place and in retire, from every reachable
\* state (every player retired included), the turn advance ends after at
\* most num_players assignments to the pointer, the assignment before the
\* loop in maybe_place counted, and leaves curr_player in 1..num_players.
C30_SkipLoopBounded ==
    [][\/ op' = "retire"
       \/ op' = "maybe_place" /\ num_moves' = num_moves + 1
       =>
       LET before == IF op' = "retire" THEN 0 ELSE 1
           from   == IF op' = "retire" THEN curr_player
                     ELSE NextPlayer(curr_player)
           loop   == SkipLoop(from, retired_players')
       IN  /\ loop.done
           /\ before + loop.steps <= num_players
           /\ curr_player' = loop.pointer
           /\ curr_player' \in 1..num_players
      ]_vars

\* retire has just been called with every player retired, in a game where a
\* placement had to pass over every other player.
C30_Witness ==
    /\ op = "retire"
    /\ num_players > 2
    /\ retired_players = Players
    /\ num_moves > 1
    /\ \A i \in DOMAIN played_pieces : played_pieces[i][1] = played_pieces[1][1]
    /\ curr_player \in retired_players

\* ----------------------------------------------------------------------- C31
\* The piece of a kind as the catalog defines it, anchored at a point.
Canonical(kind, anchor) == [shape |-> shapes[kind], anchor |-> anchor]

\* The kinds of which the current player has no cell on the board.
Inventory == ShapeKind \ {grid[p][2] : p \in Owned(curr_player)}

QueryNames ==
    {"legal_to_place", "any_collisions", "any_wall_collisions",
     "remaining_shapes", "get_score", "game_over", "winners",
     "available_moves"}

\* C32: a call of legal_to_place, any_collisions, any_wall_collisions,
\* remaining_shapes, get_score, game_over, winners or available_moves leaves
\* the board, the current player, the move counter, the retired set and the
\* placement history as they were, whether it returns or raises.
C32_QueriesChangeNothing ==
    [][op' \in QueryNames =>
            /\ grid' = grid
            /\ curr_player' = curr_player
            /\ num_moves' = num_moves
            /\ retired_players' = retired_players
            /\ played_pieces' = played_pieces
      ]_vars

\* A query has just raised in a game with pieces of both players on the
\* board, one retired player and a history that reads differently backwards.
C32_Witness ==
    /\ op \in QueryNames
    /\ ret = "ValueError"
    /\ retired_players # {}
    /\ Len(played_pieces) > 1
    /\ played_pieces[1] # played_pieces[Len(played_pieces)]
    /\ \A pl \in Players : Owned(pl) # {}

\* ----------------------------------------------------------------------- C33
\* C33: in every reachable state, after reset() too, a pair <<player, kind>>
\* is in the placement history if and only if some cell of the board holds
\* it, no pair is in the history twice, the history is as long as the move
\* counter says, and the history is empty right after reset().
C33_HistoryAgreesWithBoard ==
    /\ \A player \in Players, kind \in ShapeKind :
            (\E i \in DOMAIN played_pieces :
                played_pieces[i] = <<player, kind>>)
                <=> CellsOf(player, kind) # {}
    /\ \A i, j \in DOMAIN played_pieces :
            i # j => played_pieces[i] # played_pieces[j]
    /\ Len(played_pieces) = num_moves
    /\ op = "reset" => played_pieces = <<>>

\* Right after reset() the board is empty and the move counter is 0, while
\* the history still holds the placements of the game before.
C33_HistoryOutlivesReset ==
    /\ op = "reset"
    /\ \A p \in Points : grid[p] = None
    /\ num_moves = 0
    /\ played_pieces # <<>>

\* ----------------------------------------------------------------------- C34
\* C34: when every call is a maybe_place that places a piece or a retire of
\* the current player, and there is no reset, the game reaches a state in
\* which game_over is true.
C34_EventuallyOver == <>game_over

\* The game has become over by placements and retirements together: a
\* player has placed every kind, another has retired with kinds left.
C34_Witness ==
    /\ game_over
    /\ \E pl \in Players : Exhausted(pl) /\ pl \notin retired_players
    /\ \E pl \in retired_players : ~Exhausted(pl)

====
